---- MODULE Spec2Model ----
(***************************************************************************)
(* Model of the task execution engine of src/main.py: class Task and class *)
(* CodeExecutorBot (add_task, _task_worker, _execute_task, get_task,       *)
(* get_user_tasks, get_recent_tasks).                                      *)
(*                                                                         *)
(* Two threads share the engine: the handler thread that calls add_task    *)
(* and the daemon worker thread started in __init__.  Neither takes a      *)
(* lock, so each statement that touches shared state is one step and the   *)
(* steps of the two threads interleave freely.  The program counters are   *)
(* named after the source line that is about to run.  The read-only        *)
(* queries are operators over the state: a reader may evaluate them in     *)
(* any reachable state.  get_user_tasks, which walks task_history in a     *)
(* loop, is also given as steps of the handler thread (ReaderSpec).        *)
(***************************************************************************)
EXTENDS Integers, Sequences, FiniteSets, TLC

\* ---------------------------------------------------------------- bounds
\* Number of Task objects ever created (ReaderSpec explores this many
\* add_task calls).
MaxTasks == 3
\* Last value of the wall clock (whole seconds, int(time.time())).
MaxTime == 1
\* Number of failures of the environment explored in one run: the temporary
\* file that cannot be created or written, the os.remove that fails.
MaxFaults == 1
\* Number of add_task calls explored together with the clock and with the
\* failures of the environment (Spec, FairSpec).
LiveTasks == 2

\* ------------------------------------------------------ program constants
\* TASK_HISTORY_SIZE is 100 in the source; the model scales it down so that
\* capacity + k finished Tasks are reachable.
TASK_HISTORY_SIZE == 1
\* The modulus of hash(code) % 10000 in the task id.
HashModulus == 10000
\* Task.start_time / Task.end_time before they are set (Python None).
None == -1

\* ----------------------------------------------------------------- inputs
Users == {1, 2}
Codes == {"c1", "c2"}

\* The (user id, code) pairs that are submitted.
Submissions == {<<1, "c1">>, <<2, "c2">>}

\* hash(code): a signed 64-bit integer in Python.
CodeHash(c) == IF c = "c1" THEN 12345 ELSE -4321

\* user.username or user.first_name, as passed by handle_code_input.
UserName(u) == IF u = 1 THEN "alice" ELSE "bob"

\* What the child process of a submission writes when it writes anything.
ChildStdout(c) == IF c = "c1" THEN "out-c1" ELSE "out-c2"
ChildStderr(c) == IF c = "c1" THEN "err-c1" ELSE "err-c2"

\* Measured wall-clock durations (time.time() - start_time), in seconds.
Durations == {2}

TimeoutMessage == "timeout: limit of 60 seconds exceeded"
ExceptionMessage == "error during execution: spawn failed"

\* ------------------------------------------------------------------ state
VARIABLES
    now,            \* the wall clock, in seconds
    heap,           \* the Task objects created so far; a Task's identity is its index
    tasks,          \* self.tasks: task id -> Task
    task_queue,     \* self.task_queue, front first
    task_history,   \* self.task_history, oldest first
    user_stats,     \* self.user_stats: user id -> counters (a defaultdict)
    system_stats,   \* self.system_stats
    files,          \* temporary script files that exist on disk
    apc,            \* handler thread: line of add_task about to run, or "idle"
    atask,          \* handler thread: the local variable task of add_task
    wpc,            \* worker thread: line about to run
    wtask,          \* worker thread: the local variable task
    result,         \* worker thread: outcome of subprocess.run in _execute_task
    faults,         \* failures of the environment so far (bounded by MaxFaults)
    reader          \* handler thread: its call of get_user_tasks (line 181)

vars == <<now, heap, tasks, task_queue, task_history, user_stats, system_stats,
          files, apc, atask, wpc, wtask, result, faults, reader>>

\* ------------------------------------------------------------ class Task
\* f"task_{int(time.time())}_{user_id}_{hash(code) % 10000}"
TaskId(t, u, c) == <<t, u, CodeHash(c) % HashModulus>>

\* Task.__init__ followed by the assignments of add_task, lines 90-93.
NewTask(t, u, c) ==
    [id |-> TaskId(t, u, c), user_id |-> u, username |-> UserName(u), code |-> c,
     status |-> "pending", start_time |-> t, end_time |-> None,
     execution_time |-> 0, output |-> "", error |-> ""]

\* defaultdict(lambda: {'tasks': 0, 'success': 0, 'errors': 0})
DefaultUserStats == [tasks |-> 0, success |-> 0, errors |-> 0]

\* self.user_stats[u]: the entry, as it is or as the default factory makes it.
UserEntry(u) == IF u \in DOMAIN user_stats THEN user_stats[u] ELSE DefaultUserStats

\* self.user_stats[u][k] += 1 on an entry that exists.  The handler thread
\* writes only 'tasks' and the worker only 'success' and 'errors', so the
\* read-add-write of one counter is never interleaved with another write of it.
BumpUser(u, k) ==
    [x \in (DOMAIN user_stats) \cup {u} |->
        IF x = u THEN [UserEntry(u) EXCEPT ![k] = @ + 1] ELSE user_stats[x]]

\* self.user_stats[u][k] += 1 on a key that was missing when it was looked up:
\* defaultdict.__missing__ has called the factory and now stores the new entry,
\* replacing whatever another thread stored for u in the meantime; the
\* increment goes to the new entry.
StoreFresh(u, k) ==
    [x \in (DOMAIN user_stats) \cup {u} |->
        IF x = u THEN [DefaultUserStats EXCEPT ![k] = 1] ELSE user_stats[x]]

\* --------------------------------------------------------------- __init__
\* The handler thread is in no call of get_user_tasks.
ReaderIdle == [pc |-> "idle", user |-> 0, i |-> 0, acc |-> <<>>, reply |-> <<>>]

Init ==
    /\ now = 0
    /\ heap = <<>>
    /\ tasks = <<>>
    /\ task_queue = <<>>
    /\ task_history = <<>>
    /\ user_stats = <<>>
    /\ system_stats = [total_tasks |-> 0, successful_tasks |-> 0,
                       failed_tasks |-> 0, total_execution_time |-> 0]
    /\ files = {}
    /\ apc = "idle"
    /\ atask = 0
    /\ wpc = "L106"
    /\ wtask = 0
    /\ result = [kind |-> "none"]
    /\ faults = 0
    /\ reader = ReaderIdle

\* The wall clock advances.
Tick ==
    /\ now < MaxTime
    /\ now' = now + 1
    /\ UNCHANGED <<heap, tasks, task_queue, task_history, user_stats, system_stats,
                   files, apc, atask, wpc, wtask, result, faults, reader>>

\* --------------------------------------------------------------- add_task
\* self.tasks[task_id] = task: the entry of an equal id is replaced.
Register(id, t) ==
    [x \in (DOMAIN tasks) \cup {id} |-> IF x = id THEN t ELSE tasks[x]]

\* add_task with the put moved before the registration: the Task is on the
\* queue while add_task is still at line 96.
add_task_create_put_first(u, c) ==
    /\ apc = "idle"
    /\ Len(heap) < MaxTasks
    /\ heap' = Append(heap, NewTask(now, u, c))
    /\ atask' = Len(heap) + 1
    /\ tasks' = Register(TaskId(now, u, c), Len(heap) + 1)
    /\ task_queue' = Append(task_queue, Len(heap) + 1)
    /\ apc' = "L96"
    /\ UNCHANGED <<now, task_history, user_stats, system_stats,
                   files, wpc, wtask, result, faults, reader>>

\* Lines 89-95: build the id and the Task, register it in self.tasks.
add_task_create(u, c) ==
    /\ apc = "idle"
    /\ Len(heap) < MaxTasks
    /\ heap' = Append(heap, NewTask(now, u, c))
    /\ atask' = Len(heap) + 1
    /\ tasks' = Register(TaskId(now, u, c), Len(heap) + 1)
    /\ apc' = "L96"
    /\ UNCHANGED <<now, task_queue, task_history, user_stats, system_stats,
                   files, wpc, wtask, result, faults, reader>>

\* Line 96: self.task_queue.put(task)
add_task_put ==
    /\ apc = "L96"
    /\ task_queue' = Append(task_queue, atask)
    /\ apc' = "L97"
    /\ UNCHANGED <<now, heap, tasks, task_history, user_stats, system_stats,
                   files, atask, wpc, wtask, result, faults, reader>>

\* Line 97: self.user_stats[user_id]['tasks'] += 1.  On a missing key the
\* lookup enters the default factory, a Python function during which the
\* other thread can run (pc "L97f").
add_task_user_stats ==
    /\ apc = "L97"
    /\ IF heap[atask].user_id \in DOMAIN user_stats
       THEN /\ user_stats' = BumpUser(heap[atask].user_id, "tasks")
            /\ apc' = "L98"
       ELSE /\ user_stats' = user_stats
            /\ apc' = "L97f"
    /\ UNCHANGED <<now, heap, tasks, task_queue, task_history, system_stats,
                   files, atask, wpc, wtask, result, faults, reader>>

\* Line 97, after the default factory: store the new entry and count in it.
add_task_user_stats_store ==
    /\ apc = "L97f"
    /\ user_stats' = StoreFresh(heap[atask].user_id, "tasks")
    /\ apc' = "L98"
    /\ UNCHANGED <<now, heap, tasks, task_queue, task_history, system_stats,
                   files, atask, wpc, wtask, result, faults, reader>>

\* Line 98 without its increment.
add_task_system_stats_forgotten ==
    /\ apc = "L98"
    /\ apc' = "L100"
    /\ UNCHANGED <<now, heap, tasks, task_queue, task_history, user_stats,
                   system_stats, files, atask, wpc, wtask, result, faults, reader>>

\* Line 98: self.system_stats['total_tasks'] += 1
add_task_system_stats ==
    /\ apc = "L98"
    /\ system_stats' = [system_stats EXCEPT !.total_tasks = @ + 1]
    /\ apc' = "L100"
    /\ UNCHANGED <<now, heap, tasks, task_queue, task_history, user_stats,
                   files, atask, wpc, wtask, result, faults, reader>>

\* Line 100: return task_id
add_task_return ==
    /\ apc = "L100"
    /\ apc' = "idle"
    /\ UNCHANGED <<now, heap, tasks, task_queue, task_history, user_stats,
                   system_stats, files, atask, wpc, wtask, result, faults, reader>>

\* ----------------------------------------------------------- _task_worker
\* Line 106 reading the front of the queue without taking it off.
worker_get_peek ==
    /\ wpc = "L106"
    /\ task_queue # <<>>
    /\ wtask' = Head(task_queue)
    /\ wpc' = "L121"
    /\ UNCHANGED <<now, heap, tasks, task_queue, task_history, user_stats,
                   system_stats, files, apc, atask, result, faults, reader>>

\* Line 106: task = self.task_queue.get(timeout=1).  On an empty queue the get
\* times out, queue.Empty is caught at line 114 and the loop reads the queue
\* again: no state changes, so that branch is a stuttering step.
worker_get ==
    /\ wpc = "L106"
    /\ task_queue # <<>>
    /\ wtask' = Head(task_queue)
    /\ task_queue' = Tail(task_queue)
    /\ wpc' = "L121"
    /\ UNCHANGED <<now, heap, tasks, task_history, user_stats, system_stats,
                   files, apc, atask, result, faults, reader>>

\* ---------------------------------------------------------- _execute_task
\* The field is assigned on the Task created last instead of the worker's.
SetFieldOfNewest(f, v) == [heap EXCEPT ![Len(heap)][f] = v]

\* Assignment to one field of the worker's Task.
SetField(f, v) == [heap EXCEPT ![wtask][f] = v]

\* Line 121 without its assignment: the Task stays pending while it runs.
execute_mark_running_forgotten ==
    /\ wpc = "L121"
    /\ wpc' = "L124"
    /\ UNCHANGED <<now, heap, tasks, task_queue, task_history, user_stats,
                   system_stats, files, apc, atask, wtask, result, faults, reader>>

\* Line 121: task.status = "running"
execute_mark_running ==
    /\ wpc = "L121"
    /\ heap' = SetField("status", "running")
    /\ wpc' = "L124"
    /\ UNCHANGED <<now, tasks, task_queue, task_history, user_stats, system_stats,
                   files, apc, atask, wtask, result, faults, reader>>

\* Lines 124-126: the temporary script is created and written.  The file is
\* named after the Task: mkstemp never hands out a name twice.
execute_tempfile ==
    /\ wpc = "L124"
    /\ files' = files \cup {wtask}
    /\ wpc' = "L130"
    /\ UNCHANGED <<now, heap, tasks, task_queue, task_history, user_stats,
                   system_stats, apc, atask, wtask, result, faults, reader>>

\* Lines 124-126 raise and nothing catches the exception: the worker thread
\* ends.
execute_tempfile_raises_uncaught(created) ==
    /\ wpc = "L124"
    /\ faults < MaxFaults
    /\ faults' = faults + 1
    /\ files' = IF created THEN files \cup {wtask} ELSE files
    /\ wpc' = "dead"
    /\ UNCHANGED <<now, heap, tasks, task_queue, task_history, user_stats,
                   system_stats, apc, atask, wtask, result, reader>>

\* Lines 124-126 raise (no space, no permission, text the locale cannot
\* encode).  The statement is outside the try of _execute_task, so the
\* exception leaves _execute_task, is caught at line 116 of the worker loop and
\* the loop goes on with the next get.  created: NamedTemporaryFile succeeded
\* and f.write raised, which leaves the file behind (delete=False).
execute_tempfile_raises(created) ==
    /\ wpc = "L124"
    /\ faults < MaxFaults
    /\ faults' = faults + 1
    /\ files' = IF created THEN files \cup {wtask} ELSE files
    /\ wpc' = "L106"
    /\ wtask' = 0
    /\ UNCHANGED <<now, heap, tasks, task_queue, task_history, user_stats,
                   system_stats, apc, atask, result, reader>>

\* What subprocess.run can do with the script of code c (lines 130-138):
\* return with an exit code and the captured streams, raise TimeoutExpired, or
\* raise another exception.
RunOutcomes(c) ==
    {[kind |-> "exit", returncode |-> 0, stdout |-> ChildStdout(c), stderr |-> "",
      duration |-> d] : d \in Durations}
    \cup {[kind |-> "exit", returncode |-> 1, stdout |-> "", stderr |-> e,
           duration |-> d] : e \in {"", ChildStderr(c)}, d \in Durations}
    \cup {[kind |-> k, returncode |-> 0, stdout |-> "", stderr |-> "", duration |-> 0] :
           k \in {"timeout", "exception"}}

\* Lines 129-138: run the child; control goes to line 140 or to a handler.
execute_run(r) ==
    /\ wpc = "L130"
    /\ r \in RunOutcomes(heap[wtask].code)
    /\ result' = r
    /\ wpc' = CASE r.kind = "exit" -> "L140"
                [] r.kind = "timeout" -> "L154"
                [] r.kind = "exception" -> "L162"
    /\ UNCHANGED <<now, heap, tasks, task_queue, task_history, user_stats,
                   system_stats, files, apc, atask, wtask, faults, reader>>

\* Line 140: task.execution_time = execution_time
execute_set_execution_time ==
    /\ wpc = "L140"
    /\ heap' = SetField("execution_time", result.duration)
    /\ wpc' = "L141"
    /\ UNCHANGED <<now, tasks, task_queue, task_history, user_stats, system_stats,
                   files, apc, atask, wtask, result, faults, reader>>

\* Line 141: task.output = result.stdout
execute_set_output ==
    /\ wpc = "L141"
    /\ heap' = SetField("output", result.stdout)
    /\ wpc' = "L142"
    /\ UNCHANGED <<now, tasks, task_queue, task_history, user_stats, system_stats,
                   files, apc, atask, wtask, result, faults, reader>>

\* Line 142: task.error = result.stderr
execute_set_error ==
    /\ wpc = "L142"
    /\ heap' = SetField("error", result.stderr)
    /\ wpc' = "L143"
    /\ UNCHANGED <<now, tasks, task_queue, task_history, user_stats, system_stats,
                   files, apc, atask, wtask, result, faults, reader>>

\* "completed" if result.returncode == 0 else "failed"
FinalStatus(returncode) == IF returncode = 0 THEN "completed" ELSE "failed"

\* Line 143: task.status = "completed" if result.returncode == 0 else "failed"
execute_set_status ==
    /\ wpc = "L143"
    /\ heap' = SetField("status", FinalStatus(result.returncode))
    /\ wpc' = "L144"
    /\ UNCHANGED <<now, tasks, task_queue, task_history, user_stats, system_stats,
                   files, apc, atask, wtask, result, faults, reader>>

\* Line 144: task.end_time = datetime.now()
execute_set_end_time ==
    /\ wpc = "L144"
    /\ heap' = SetField("end_time", now)
    /\ wpc' = "L146"
    /\ UNCHANGED <<now, tasks, task_queue, task_history, user_stats, system_stats,
                   files, apc, atask, wtask, result, faults, reader>>

\* The counter of user_stats that lines 146-150 choose.
OutcomeCounter(status) == IF status = "completed" THEN "success" ELSE "errors"

\* Lines 146-147 and 150: the user's success or errors counter; on a missing
\* key the lookup enters the default factory (pc "L146f").
execute_count_user ==
    /\ wpc = "L146"
    /\ IF heap[wtask].user_id \in DOMAIN user_stats
       THEN /\ user_stats' = BumpUser(heap[wtask].user_id,
                                      OutcomeCounter(heap[wtask].status))
            /\ wpc' = "L148"
       ELSE /\ user_stats' = user_stats
            /\ wpc' = "L146f"
    /\ UNCHANGED <<now, heap, tasks, task_queue, task_history, system_stats,
                   files, apc, atask, wtask, result, faults, reader>>

\* Lines 147 and 150, after the default factory: store the new entry and
\* count in it.
execute_count_user_store ==
    /\ wpc = "L146f"
    /\ user_stats' = StoreFresh(heap[wtask].user_id,
                                OutcomeCounter(heap[wtask].status))
    /\ wpc' = "L148"
    /\ UNCHANGED <<now, heap, tasks, task_queue, task_history, system_stats,
                   files, apc, atask, wtask, result, faults, reader>>

\* Lines 148 and 151: the system's successful_tasks or failed_tasks counter.
execute_count_system ==
    /\ wpc = "L148"
    /\ system_stats' =
         IF heap[wtask].status = "completed"
         THEN [system_stats EXCEPT !.successful_tasks = @ + 1]
         ELSE [system_stats EXCEPT !.failed_tasks = @ + 1]
    /\ wpc' = "L171"
    /\ UNCHANGED <<now, heap, tasks, task_queue, task_history, user_stats,
                   files, apc, atask, wtask, result, faults, reader>>

\* The two handlers, except subprocess.TimeoutExpired (lines 153-159) and
\* except Exception (lines 161-167), run the same five statements and differ
\* in the text they store.
HandlerNext(pc) ==
    CASE pc = "L154" -> "L155" [] pc = "L155" -> "L156" [] pc = "L156" -> "L158"
      [] pc = "L158" -> "L159" [] pc = "L159" -> "L171"
      [] pc = "L162" -> "L163" [] pc = "L163" -> "L164" [] pc = "L164" -> "L166"
      [] pc = "L166" -> "L167" [] pc = "L167" -> "L171"
      [] pc = "L158f" -> "L159" [] pc = "L166f" -> "L167"

\* Lines 154 and 162: task.status = "failed"
handler_set_status ==
    /\ wpc \in {"L154", "L162"}
    /\ heap' = SetField("status", "failed")
    /\ wpc' = HandlerNext(wpc)
    /\ UNCHANGED <<now, tasks, task_queue, task_history, user_stats, system_stats,
                   files, apc, atask, wtask, result, faults, reader>>

\* Lines 155 and 163 without their assignment: no diagnostic is stored.
handler_set_error_forgotten ==
    /\ wpc \in {"L155", "L163"}
    /\ wpc' = HandlerNext(wpc)
    /\ UNCHANGED <<now, heap, tasks, task_queue, task_history, user_stats,
                   system_stats, files, apc, atask, wtask, result, faults, reader>>

\* Lines 155 and 163: task.error = the diagnostic of the handler
handler_set_error ==
    /\ wpc \in {"L155", "L163"}
    /\ heap' = SetField("error", IF wpc = "L155" THEN TimeoutMessage
                                                 ELSE ExceptionMessage)
    /\ wpc' = HandlerNext(wpc)
    /\ UNCHANGED <<now, tasks, task_queue, task_history, user_stats, system_stats,
                   files, apc, atask, wtask, result, faults, reader>>

\* Lines 156 and 164: task.end_time = datetime.now()
handler_set_end_time ==
    /\ wpc \in {"L156", "L164"}
    /\ heap' = SetField("end_time", now)
    /\ wpc' = HandlerNext(wpc)
    /\ UNCHANGED <<now, tasks, task_queue, task_history, user_stats, system_stats,
                   files, apc, atask, wtask, result, faults, reader>>

\* Lines 158 and 166: self.user_stats[task.user_id]['errors'] += 1; on a
\* missing key the lookup enters the default factory (pc "L158f", "L166f").
handler_count_user ==
    /\ wpc \in {"L158", "L166"}
    /\ IF heap[wtask].user_id \in DOMAIN user_stats
       THEN /\ user_stats' = BumpUser(heap[wtask].user_id, "errors")
            /\ wpc' = HandlerNext(wpc)
       ELSE /\ user_stats' = user_stats
            /\ wpc' = IF wpc = "L158" THEN "L158f" ELSE "L166f"
    /\ UNCHANGED <<now, heap, tasks, task_queue, task_history, system_stats,
                   files, apc, atask, wtask, result, faults, reader>>

\* Lines 158 and 166, after the default factory: store the new entry and
\* count in it.
handler_count_user_store ==
    /\ wpc \in {"L158f", "L166f"}
    /\ user_stats' = StoreFresh(heap[wtask].user_id, "errors")
    /\ wpc' = HandlerNext(wpc)
    /\ UNCHANGED <<now, heap, tasks, task_queue, task_history, system_stats,
                   files, apc, atask, wtask, result, faults, reader>>

\* Lines 159 and 167: self.system_stats['failed_tasks'] += 1
handler_count_system ==
    /\ wpc \in {"L159", "L167"}
    /\ system_stats' = [system_stats EXCEPT !.failed_tasks = @ + 1]
    /\ wpc' = HandlerNext(wpc)
    /\ UNCHANGED <<now, heap, tasks, task_queue, task_history, user_stats,
                   files, apc, atask, wtask, result, faults, reader>>

\* Lines 169-173: finally os.remove(script_path), any error of it swallowed;
\* _execute_task returns and its local result is gone.
execute_finally(removed) ==
    /\ wpc = "L171"
    /\ removed \/ faults < MaxFaults
    /\ faults' = IF removed THEN faults ELSE faults + 1
    /\ files' = IF removed THEN files \ {wtask} ELSE files
    /\ result' = [kind |-> "none"]
    /\ wpc' = "L110"
    /\ UNCHANGED <<now, heap, tasks, task_queue, task_history, user_stats,
                   system_stats, apc, atask, wtask, reader>>

\* ------------------------------------------------- _task_worker, continued
\* Line 110: self.task_history.append(task)
worker_append ==
    /\ wpc = "L110"
    /\ task_history' = Append(task_history, wtask)
    /\ wpc' = "L111"
    /\ UNCHANGED <<now, heap, tasks, task_queue, user_stats, system_stats,
                   files, apc, atask, wtask, result, faults, reader>>

\* self.task_history.pop(): the newest entry instead of the oldest.
PopLast(h) == SubSeq(h, 1, Len(h) - 1)

\* self.task_history.pop(0)
PopFirst(h) == Tail(h)

\* Lines 111-112: if len(self.task_history) > TASK_HISTORY_SIZE: pop(0); the
\* iteration ends and the local task is dead until the next get.
worker_trim ==
    /\ wpc = "L111"
    /\ task_history' = IF Len(task_history) > TASK_HISTORY_SIZE
                       THEN PopFirst(task_history) ELSE task_history
    /\ wpc' = "L106"
    /\ wtask' = 0
    /\ UNCHANGED <<now, heap, tasks, task_queue, user_stats, system_stats,
                   files, apc, atask, result, faults, reader>>

\* ---------------------------------------------------------------- queries
\* The value of a query that finds nothing (Python None); Tasks are 1, 2, ...
NotFound == 0

\* get_task, line 177: self.tasks.get(task_id)
get_task(id) == IF id \in DOMAIN tasks THEN tasks[id] ELSE NotFound

\* Python's s[start:] for a list s and any integer start.
SliceFrom(s, start) ==
    LET n == Len(s)
        i == IF start < 0 THEN (IF n + start < 0 THEN 0 ELSE n + start)
                          ELSE (IF start > n THEN n ELSE start)
    IN  SubSeq(s, i + 1, n)

\* list(reversed(s))
Reversed(s) == [i \in 1..Len(s) |-> s[Len(s) + 1 - i]]

\* The slice bound of get_user_tasks, line 181.
UserTasksLimit == 10

\* get_user_tasks, line 181, when no step of the worker falls into the call.
get_user_tasks(u) ==
    SliceFrom(SelectSeq(task_history, LAMBDA t : heap[t].user_id = u), -UserTasksLimit)

\* get_recent_tasks, line 185.
get_recent_tasks(limit) == Reversed(SliceFrom(task_history, -limit))

\* my_tasks_command, line 350: the handler thread calls get_user_tasks(u).
\* The thread is in one handler at a time, so it is not inside add_task.
get_user_tasks_call(u) ==
    /\ apc = "idle"
    /\ reader.pc \in {"idle", "done"}
    /\ reader' = [pc |-> "L181", user |-> u, i |-> 0, acc |-> <<>>, reply |-> <<>>]
    /\ UNCHANGED <<now, heap, tasks, task_queue, task_history, user_stats,
                   system_stats, files, apc, atask, wpc, wtask, result, faults>>

\* Line 181, one round of the comprehension: the list iterator holds an index
\* into self.task_history and reads the list as it is now; the Task at the
\* index is kept when its user_id is u.  The worker can append and pop(0)
\* between two rounds.  Past the end the loop is over.
get_user_tasks_iter ==
    /\ reader.pc = "L181"
    /\ reader' =
          IF reader.i < Len(task_history)
          THEN LET t == task_history[reader.i + 1] IN
               [reader EXCEPT !.i = @ + 1,
                              !.acc = IF heap[t].user_id = reader.user
                                      THEN Append(@, t) ELSE @]
          ELSE [reader EXCEPT !.pc = "L181s"]
    /\ UNCHANGED <<now, heap, tasks, task_queue, task_history, user_stats,
                   system_stats, files, apc, atask, wpc, wtask, result, faults>>

\* Line 181, the slice [-10:] of the list the comprehension built, returned to
\* my_tasks_command.
get_user_tasks_return ==
    /\ reader.pc = "L181s"
    /\ reader' = [reader EXCEPT !.pc = "done", !.i = 0, !.acc = <<>>,
                                !.reply = SliceFrom(reader.acc, -UserTasksLimit)]
    /\ UNCHANGED <<now, heap, tasks, task_queue, task_history, user_stats,
                   system_stats, files, apc, atask, wpc, wtask, result, faults>>

\* ---------------------------------------------------------- specification
Next ==
    \/ Tick
    \/ Len(heap) < LiveTasks /\ \E s \in Submissions : add_task_create(s[1], s[2])
    \/ add_task_put
    \/ add_task_user_stats
    \/ add_task_user_stats_store
    \/ add_task_system_stats
    \/ add_task_return
    \/ worker_get
    \/ execute_mark_running
    \/ execute_tempfile
    \/ \E created \in BOOLEAN : execute_tempfile_raises(created)
    \/ \E c \in Codes : \E r \in RunOutcomes(c) : execute_run(r)
    \/ execute_set_execution_time
    \/ execute_set_output
    \/ execute_set_error
    \/ execute_set_status
    \/ execute_set_end_time
    \/ execute_count_user
    \/ execute_count_user_store
    \/ execute_count_system
    \/ handler_set_status
    \/ handler_set_error
    \/ handler_set_end_time
    \/ handler_count_user
    \/ handler_count_user_store
    \/ handler_count_system
    \/ \E removed \in BOOLEAN : execute_finally(removed)
    \/ worker_append
    \/ worker_trim

Spec == Init /\ [][Next]_vars

\* One step of the worker thread.
WorkerStep ==
    \/ worker_get
    \/ execute_mark_running
    \/ execute_tempfile
    \/ \E created \in BOOLEAN : execute_tempfile_raises(created)
    \/ \E c \in Codes : \E r \in RunOutcomes(c) : execute_run(r)
    \/ execute_set_execution_time
    \/ execute_set_output
    \/ execute_set_error
    \/ execute_set_status
    \/ execute_set_end_time
    \/ execute_count_user
    \/ execute_count_user_store
    \/ execute_count_system
    \/ handler_set_status
    \/ handler_set_error
    \/ handler_set_end_time
    \/ handler_count_user
    \/ handler_count_user_store
    \/ handler_count_system
    \/ \E removed \in BOOLEAN : execute_finally(removed)
    \/ worker_append
    \/ worker_trim

\* One step of the handler thread inside add_task.
HandlerStep ==
    \/ add_task_put
    \/ add_task_user_stats
    \/ add_task_user_stats_store
    \/ add_task_system_stats
    \/ add_task_return

\* The steps of the program, thread by thread.
LiveNext ==
    \/ Tick
    \/ Len(heap) < LiveTasks /\ \E s \in Submissions : add_task_create(s[1], s[2])
    \/ HandlerStep
    \/ WorkerStep

\* The worker is a thread of its own (line 84): whenever it can take a step
\* it eventually takes one.  Every blocking call of the loop returns: the get
\* as soon as the queue holds a Task, subprocess.run after 60 seconds at most.
FairSpec == Init /\ [][LiveNext]_vars /\ WF_vars(WorkerStep)

\* One step of the handler thread inside get_user_tasks.
ReaderStep ==
    \/ \E u \in Users : get_user_tasks_call(u)
    \/ get_user_tasks_iter
    \/ get_user_tasks_return

\* Children that exit with code 0.
CleanExit(r) == r.kind = "exit" /\ r.returncode = 0

\* The program with a reader of the history, in an environment without
\* failures: every child exits with code 0, the temporary file is written and
\* removed.
ReaderNext ==
    \/ reader.pc \in {"idle", "done"} /\ \E s \in Submissions : add_task_create(s[1], s[2])
    \/ HandlerStep
    \/ ReaderStep
    \/ worker_get
    \/ execute_mark_running
    \/ execute_tempfile
    \/ \E c \in Codes : \E r \in RunOutcomes(c) : CleanExit(r) /\ execute_run(r)
    \/ execute_set_execution_time
    \/ execute_set_output
    \/ execute_set_error
    \/ execute_set_status
    \/ execute_set_end_time
    \/ execute_count_user
    \/ execute_count_user_store
    \/ execute_count_system
    \/ execute_finally(TRUE)
    \/ worker_append
    \/ worker_trim

ReaderSpec == Init /\ [][ReaderNext]_vars

\* ------------------------------------------------------------- vocabulary
AllTasks == 1..Len(heap)

Terminal(t) == heap[t].status \in {"completed", "failed"}

\* The worker holds t and has not yet reached the end of _execute_task.
InExecute(t) == wtask = t /\ wpc \notin {"L106", "L110", "L111"}

\* The worker has appended t to task_history (line 110): t is terminal and
\* the worker is past line 110 with it.
Recorded(t) == Terminal(t) /\ ~(wtask = t /\ wpc # "L111")

\* The Tasks in the order of their creation, which is the order add_task put
\* them on the queue and so the order in which the single worker ends them.
RecordedSeq == SelectSeq([i \in AllTasks |-> i], Recorded)

\* The last n entries of s.
LastN(s, n) == IF Len(s) <= n THEN s ELSE SubSeq(s, Len(s) - n + 1, Len(s))

\* The elements of a sequence.
Range(s) == {s[i] : i \in DOMAIN s}

\* ------------------------------------------------------------------ claims

\* C1: the status of a Task only ever changes pending -> running,
\* running -> completed or running -> failed; a new Task starts pending; a
\* Task in completed or failed never changes status again.
C1_StatusTransitions ==
    [][ /\ \A t \in AllTasks :
             heap'[t].status # heap[t].status =>
                <<heap[t].status, heap'[t].status>> \in
                    {<<"pending", "running">>, <<"running", "completed">>,
                     <<"running", "failed">>}
        /\ \A t \in (DOMAIN heap') \ AllTasks : heap'[t].status = "pending" ]_vars

\* C1 witness: one Task went all the way to completed and another, submitted
\* after it, to failed.
C1_Witness ==
    \E a, b \in AllTasks :
        /\ a < b
        /\ heap[a].status = "completed"
        /\ heap[b].status = "failed"

\* C2 as stated: the Task is still pending when add_task is about to return.
C2_PendingAtReturn == apc = "L100" => heap[atask].status = "pending"

\* The steps of add_task after the Task is built.
AddTaskStep == HandlerStep

\* C2 amended: add_task never waits for the worker (its next step is always
\* enabled), and the Task is still pending at the moment add_task puts it on
\* the queue; after the put the worker may move it on before add_task returns.
C2_PendingUntilPut ==
    /\ apc = "L96" => heap[atask].status = "pending" /\ atask \notin Range(task_queue)
    /\ apc # "idle" => ENABLED AddTaskStep

\* C2 witness: add_task is about to return a Task that is already running.
C2_Witness == apc = "L100" /\ heap[atask].status = "running"

\* C3: the length of task_history is at most TASK_HISTORY_SIZE in every
\* state a reader can observe.
C3_HistoryBounded == Len(task_history) <= TASK_HISTORY_SIZE

Evicted == {t \in AllTasks : Recorded(t) /\ t \notin Range(task_history)}

\* C5: an evicted Task is no longer retrievable through any query: get_task
\* on its id finds nothing, get_user_tasks and get_recent_tasks never return it.
C5_EvictedNotRetrievable ==
    \A t \in Evicted :
        /\ get_task(heap[t].id) = NotFound
        /\ \A u \in Users : t \notin Range(get_user_tasks(u))
        /\ \A n \in 0..(TASK_HISTORY_SIZE + 1) : t \notin Range(get_recent_tasks(n))

C7_SequentialFifo ==
    /\ Cardinality({t \in AllTasks : heap[t].status = "running"}) <= 1
    /\ \A a, b \in AllTasks :
          a < b /\ heap[b].status # "pending" => Terminal(a)

\* C8: no reader observes a torn Task: a terminal status comes with end_time
\* set and with the error text of the run written; a pending or running
\* status comes with execution_time 0 and empty output and error.
C8_NoTornTask ==
    \A t \in AllTasks :
        /\ Terminal(t) => heap[t].end_time # None
        /\ Terminal(t) /\ InExecute(t) /\ result.kind = "timeout" =>
              heap[t].error = TimeoutMessage
        /\ Terminal(t) /\ InExecute(t) /\ result.kind = "exception" =>
              heap[t].error = ExceptionMessage
        /\ ~Terminal(t) =>
              heap[t].execution_time = 0 /\ heap[t].output = "" /\ heap[t].error = ""

\* C9: every Task that _execute_task leaves in status failed has a non-empty
\* error text.
C9_FailedHasError ==
    \A t \in AllTasks :
        heap[t].status = "failed" /\ ~InExecute(t) => heap[t].error # ""

\* C10: distinct add_task calls return distinct ids, and get_task(id) is the
\* Task created by the call that returned id.
C10_IdsDistinct ==
    /\ \A a, b \in AllTasks : a # b => heap[a].id # heap[b].id
    /\ \A t \in AllTasks : get_task(heap[t].id) = t

\* C11: for Tasks a and b of different submitters, get_task on a's id never
\* returns b: it returns a Task of a's submitter (a itself unless a Task of
\* the same submitter took the same id), and the output and error that Task
\* carries come from a run of its own code.
C11_NoCrossAssignment ==
    \A a, b \in AllTasks :
        heap[a].user_id # heap[b].user_id =>
            LET x == get_task(heap[a].id) IN
            /\ x \in AllTasks
            /\ x # b
            /\ heap[x].user_id = heap[a].user_id
            /\ heap[x].output \in {"", ChildStdout(heap[x].code)}
            /\ heap[x].error \in {"", ChildStderr(heap[x].code),
                                  TimeoutMessage, ExceptionMessage}
            /\ (\A c \in AllTasks \ {a} : heap[c].id # heap[a].id) => x = a

\* C11 witness: Tasks of two submitters, created in the same second, have
\* both run; one carries its output and the other its error text.
C11_Witness ==
    \E a, b \in AllTasks :
        /\ heap[a].user_id # heap[b].user_id
        /\ heap[a].start_time = heap[b].start_time
        /\ heap[a].output = ChildStdout(heap[a].code)
        /\ heap[b].error = ChildStderr(heap[b].code)

\* The worker is in one of the two handlers of _execute_task or at its
\* finally clause.
HandlerLines == {"L154", "L155", "L156", "L158", "L158f", "L159",
                 "L162", "L163", "L164", "L166", "L166f", "L167", "L171"}

InHandler == wpc \in HandlerLines

\* C12: a timeout or an exception of subprocess.run ends in the Task (status
\* failed, the diagnostic in error, end_time set) by the time the finally
\* clause runs, and _execute_task then returns to line 110 of the loop: control
\* never leaves a handler for the except clause of the worker loop.
C12_OutcomeCaptured ==
    /\ [](wpc = "L171" /\ result.kind \in {"timeout", "exception"} =>
            /\ heap[wtask].status = "failed"
            /\ heap[wtask].error = (IF result.kind = "timeout" THEN TimeoutMessage
                                                               ELSE ExceptionMessage)
            /\ heap[wtask].end_time # None)
    /\ [][InHandler => wpc' \in HandlerLines \cup {"L110"}]_vars

\* C12 witness: _execute_task has returned to line 110 with a Task that timed
\* out.
C12_Witness ==
    /\ wpc = "L110"
    /\ heap[wtask].status = "failed"
    /\ heap[wtask].error = TimeoutMessage

\* C13: whatever the outcome of a Task, the worker loop comes back to its get
\* again and again, and every Task on the queue is eventually taken off it and
\* moved out of pending.
C13_QueueKeepsMoving ==
    /\ []<>(wpc = "L106")
    /\ \A t \in 1..LiveTasks :
          [](t \in Range(task_queue) =>
                <>(t \in AllTasks /\ t \notin Range(task_queue)
                   /\ heap[t].status # "pending"))

\* C13 witness: the temporary file of one Task could not be written, the Task
\* is left behind, and a Task queued after it has run to its end.
C13_Witness ==
    \E a, b \in AllTasks :
        /\ a < b
        /\ heap[a].status = "running"
        /\ wtask # a
        /\ Terminal(b)

\* Both threads are between two operations: add_task has returned and the
\* worker waits at its get.
Quiescent == apc = "idle" /\ wpc = "L106"

\* The Tasks of user u with the given status.
TasksOf(u, status) ==
    {t \in AllTasks : heap[t].user_id = u /\ heap[t].status = status}

\* C14: each terminal Task is counted exactly once, in successful_tasks or
\* failed_tasks and in the matching counter of its user; so when no Task is
\* running and both threads are between operations, the counters equal the
\* numbers of completed and failed Tasks.
C14_CountedExactlyOnce ==
    Quiescent /\ (\A t \in AllTasks : heap[t].status # "running") =>
        /\ system_stats.successful_tasks + system_stats.failed_tasks =
              Cardinality({t \in AllTasks : Terminal(t)})
        /\ \A u \in Users :
              /\ UserEntry(u).success = Cardinality(TasksOf(u, "completed"))
              /\ UserEntry(u).errors = Cardinality(TasksOf(u, "failed"))

\* The sum of execution_time over a set of Tasks.
RECURSIVE SumExecutionTime(_)
SumExecutionTime(S) ==
    IF S = {} THEN 0
    ELSE LET t == CHOOSE x \in S : TRUE
         IN  heap[t].execution_time + SumExecutionTime(S \ {t})

\* C15: total_execution_time is the sum of execution_time over the terminal
\* Tasks whenever the worker waits at its get.
C15_CumulativeTime ==
    wpc = "L106" =>
        system_stats.total_execution_time =
            SumExecutionTime({t \in AllTasks : Terminal(t)})

\* C16: no Task is both on the queue and in task_history, every Task on the
\* queue is pending and every Task in task_history is completed or failed.
C16_QueueAndHistoryDisjoint ==
    /\ Range(task_queue) \cap Range(task_history) = {}
    /\ \A t \in Range(task_queue) : heap[t].status = "pending"
    /\ \A t \in Range(task_history) : Terminal(t)
    /\ wtask # 0 => wtask \notin Range(task_queue)

\* C16 witness: one Task is in the history while another waits on the queue.
C16_Witness ==
    /\ task_queue # <<>>
    /\ task_history # <<>>

\* C17: the removal at lines 169-173 leaves the Task as the handlers wrote it,
\* and whenever _execute_task is left on another way than through a removal
\* that itself failed, the temporary file of its Task does not exist.
C17_TempFileRemoved ==
    /\ [][wpc = "L171" => heap' = heap]_vars
    /\ [][wtask # 0 /\ InExecute(wtask) /\ wpc' \in {"L106", "L110"} =>
            \/ wtask \notin files'
            \/ wpc = "L171" /\ wtask \in files]_vars

\* C18: a Task in status running is the one the worker is executing, which
\* the worker then takes to completed or failed and to line 110; a running
\* Task the worker no longer holds stays running for ever, since the worker
\* only ever writes the Task it took off the queue.
C18_RunningIsWithWorker ==
    \A t \in AllTasks : heap[t].status = "running" => wtask = t

\* The Tasks lo..hi in the order of their creation: with a worker that ends
\* them in this order, every value task_history ever has is such a run.
Window(lo, hi) == [k \in 1..(hi - lo + 1) |-> lo + k - 1]

\* C19: what get_user_tasks(u) returns is the last min(10, m) entries of user
\* u of task_history, most recent last, for a value task_history has had: the
\* entries of u of a run of consecutively finished Tasks, none left out, none
\* of another user and none that is not completed or failed.
C19_UserTasksAreLastOfHistory ==
    reader.pc = "done" =>
        /\ \A k \in DOMAIN reader.reply :
              heap[reader.reply[k]].user_id = reader.user /\ Terminal(reader.reply[k])
        /\ \E lo \in 1..(Len(heap) + 1), hi \in 0..Len(heap) :
              reader.reply =
                  LastN(SelectSeq(Window(lo, hi),
                                  LAMBDA t : heap[t].user_id = reader.user),
                        UserTasksLimit)

\* C20: for every limit >= 0, get_recent_tasks(limit) is the min(limit,
\* len(task_history)) most recently finished Tasks, most recent first; for
\* limit 0 it is the empty list.
C20_RecentTasksAtMostLimit ==
    \A limit \in 0..(TASK_HISTORY_SIZE + 2) :
        /\ Len(get_recent_tasks(limit)) <= limit
        /\ get_recent_tasks(limit) = Reversed(LastN(task_history, limit))

====
